---------------------------- MODULE Spec2Model ----------------------------
(***************************************************************************)
(* Model of resize_cover.py: a script that opens a cover image, converts   *)
(* it to RGB, resizes it to the KDP cover size, saves it as a JPEG and     *)
(* prints a success message.  One process run is the sequence of the       *)
(* statements of the module body; the file system outlives a run, so the   *)
(* script can be run again on what the previous run left behind.           *)
(***************************************************************************)
EXTENDS Integers, Sequences, FiniteSets, TLC

(***************************************************************************)
(* Bounds of the model.                                                    *)
(***************************************************************************)
\* how many times the script is run, one run after the other
MaxRuns == 2
\* input widths and heights range over target - MaxDelta .. target + MaxDelta
MaxDelta == 1
\* how many different pictures (pixel contents) an input file may hold
MaxPictures == 2

(***************************************************************************)
(* Program constants (lines 5-10).                                         *)
(***************************************************************************)
input_path == "ebook_assets/cover.jpg"
\* variant: the result is written over the input (resize in place)
output_path_inplace == input_path
output_path == "ebook_assets/cover_kdp.jpg"
kdp_width == 1600
kdp_height == 2560
\* arguments of the calls on lines 14-16
RGB == "RGB"
LANCZOS == "LANCZOS"
JPEG == "JPEG"
quality == 95
\* the message of line 18, with the path it interpolates
SuccessMessage == <<"[Success] Cover resized for KDP: ", output_path>>

Paths == {input_path, output_path}

(***************************************************************************)
(* Files and images.  Pixel content is kept as its provenance: the picture *)
(* it was decoded from and the operations applied since, so that two       *)
(* contents are equal exactly when they were computed the same way from    *)
(* the same picture.                                                       *)
(***************************************************************************)
Origin(n, mode, w, h) ==
    [op |-> "source", mode |-> mode, width |-> w, height |-> h, n |-> n]

Absent ==
    [kind |-> "absent", format |-> "none", quality |-> 0, mode |-> "none",
     width |-> 0, height |-> 0, pixels |-> <<>>]

\* a file that exists and does not decode as an image (also: a truncated write)
Garbage ==
    [kind |-> "garbage", format |-> "none", quality |-> 0, mode |-> "none",
     width |-> 0, height |-> 0, pixels |-> <<>>]

ImageFile(format, q, mode, w, h, px) ==
    [kind |-> "image", format |-> format, quality |-> q, mode |-> mode,
     width |-> w, height |-> h, pixels |-> px]

NoImage == [mode |-> "none", width |-> 0, height |-> 0, pixels |-> <<>>]

\* colour modes a file of each format can hold; the input is not validated,
\* so whatever decodes is processed
FileModes(format) ==
    IF format = JPEG THEN {"L", "CMYK", "RGB"} ELSE {"L", "P", "RGBA", "RGB"}

\* the modes the JPEG writer accepts ("Ensure JPEG compatible", line 14)
JpegModes == {"L", "RGB", "CMYK"}

Widths == (kdp_width - MaxDelta) .. (kdp_width + MaxDelta)
Heights == (kdp_height - MaxDelta) .. (kdp_height + MaxDelta)

\* what may lie at input_path when the script starts
InputFiles ==
    {Absent, Garbage} \cup
    { ImageFile(f, 0, m, w, h, <<Origin(n, m, w, h)>>) :
        f \in {JPEG}, m \in FileModes(JPEG), w \in Widths, h \in Heights,
        n \in 1 .. MaxPictures } \cup
    { ImageFile(f, 0, m, w, h, <<Origin(n, m, w, h)>>) :
        f \in {"PNG"}, m \in FileModes("PNG"), w \in Widths, h \in Heights,
        n \in 1 .. MaxPictures }

\* what may lie at output_path when the script starts: nothing, or an older file
StaleOutput == ImageFile(JPEG, 0, "L", 1, 1, <<Origin(0, "L", 1, 1)>>)
OutputFiles == {Absent, StaleOutput}

(***************************************************************************)
(* The library calls of lines 13-16, as functions of their arguments.      *)
(***************************************************************************)
\* variant: anything that exists is taken for an image
Identifies_existing(f) == f.kind # "absent"

\* Image.open succeeds only on a file that exists and decodes as an image
Identifies(f) == f.kind = "image"

\* the image Image.open returns for file f
Decode(f) ==
    [mode |-> f.mode, width |-> f.width, height |-> f.height, pixels |-> f.pixels]

\* variant: the conversion is left out
convert_noop(im, mode) == im

\* img.convert(mode): a copy when the mode is already the one asked for
convert(im, mode) ==
    IF im.mode = mode
    THEN im
    ELSE [im EXCEPT !.mode = mode,
                    !.pixels = Append(@, [op |-> "convert", mode |-> mode,
                                          width |-> im.width, height |-> im.height,
                                          n |-> 0])]

\* variant: the image is fitted to the width and keeps its aspect ratio
resize_keep_aspect(im, size, filter) ==
    [im EXCEPT !.width = size[1],
               !.height = (im.height * size[1]) \div im.width,
               !.pixels = Append(@, [op |-> filter, mode |-> im.mode,
                                     width |-> size[1],
                                     height |-> (im.height * size[1]) \div im.width,
                                     n |-> 0])]

\* img.resize(size, filter): exactly the size asked for, whatever the aspect
\* ratio; a copy when the size is already the one asked for
resize(im, size, filter) ==
    IF <<im.width, im.height>> = size
    THEN im
    ELSE [im EXCEPT !.width = size[1], !.height = size[2],
                    !.pixels = Append(@, [op |-> filter, mode |-> im.mode,
                                          width |-> size[1], height |-> size[2],
                                          n |-> 0])]

\* the file the encoder writes for image im
Encode(im, format, q) ==
    ImageFile(format, q, im.mode, im.width, im.height,
              Append(im.pixels, [op |-> "encode", mode |-> im.mode,
                                 width |-> im.width, height |-> im.height,
                                 n |-> q]))

\* variant: the encoded image is appended to a file that is already there
save_append(fsys, im, path, format, q) ==
    [fsys EXCEPT ![path] =
        IF @.kind = "image"
        THEN [Encode(im, format, q) EXCEPT
                 !.pixels = fsys[path].pixels \o Encode(im, format, q).pixels]
        ELSE Encode(im, format, q)]

\* img_resized.save(path, format, quality=q): the file is opened for writing
\* from scratch, what was at the path is replaced
save(fsys, im, path, format, q) ==
    [fsys EXCEPT ![path] = Encode(im, format, q)]

\* variant: the image is opened without a with-block and never closed
WithExit_leak(handle) == handle

\* the exit of the with-block of line 13 closes the handle the open step took,
\* whatever name img is bound to by then
WithExit(handle) == IF handle = "open" THEN "closed" ELSE handle

\* the statements inside the with-block
WithBody == {"convert", "resize", "save"}

\* variant: the save is issued before the resize
After_save_first(step) ==
    CASE step = "open" -> "convert"
      [] step = "convert" -> "save"
      [] step = "save" -> "resize"
      [] step = "resize" -> "print"
      [] step = "print" -> "done"

\* the statement that follows each statement of the module body
After(step) ==
    CASE step = "open" -> "convert"
      [] step = "convert" -> "resize"
      [] step = "resize" -> "save"
      [] step = "save" -> "print"
      [] step = "print" -> "done"

Order == <<"open", "convert", "resize", "save", "print">>
Final == {"done", "faulted"}

(***************************************************************************)
(* State.                                                                  *)
(***************************************************************************)
VARIABLES
    fs,          \* the file system: the file at each path
    run,         \* the number of the current run of the script
    pc,          \* the statement the run is at, or "done" / "faulted"
    fp,          \* the input file handle: "none", "open" or "closed"
    img,         \* the image bound to the name img
    img_resized, \* the image bound to the name img_resized
    fault,       \* the statement that raised, or "none"
    stdout,      \* what the run has printed
    trace,       \* the statements the run has executed, in order
    saves,       \* the save calls the run has issued
    fsAtStart,   \* the file system as the run found it
    history      \* outcome and output file of each earlier run

vars == <<fs, run, pc, fp, img, img_resized, fault, stdout, trace, saves,
          fsAtStart, history>>

Init ==
    /\ \E fin \in InputFiles, fout \in OutputFiles :
          fs = (input_path :> fin) @@ (output_path :> fout)
    /\ fsAtStart = fs
    /\ run = 1
    /\ pc = "open"
    /\ fp = "none"
    /\ img = NoImage
    /\ img_resized = NoImage
    /\ fault = "none"
    /\ stdout = <<>>
    /\ trace = <<>>
    /\ saves = <<>>
    /\ history = <<>>

\* variant: the exception is caught and logged, and the script carries on
Raise_continue(step) ==
    /\ pc' = After(step)
    /\ fault' = step
    /\ fp' = fp

\* variant: the exception is caught and the script waits for a key press
Raise_pause(step) ==
    /\ pc' = "paused"
    /\ fault' = step
    /\ fp' = IF step \in WithBody THEN WithExit(fp) ELSE fp

\* variant: the handle is closed by a call after the save, not by a with-block
Raise_noexit(step) ==
    /\ pc' = "faulted"
    /\ fault' = step
    /\ fp' = fp

(***************************************************************************)
(* An unhandled exception at a statement: the with-block, when the         *)
(* statement is inside it, is left through its exit, and the process ends. *)
(***************************************************************************)
Raise(step) ==
    /\ pc' = "faulted"
    /\ fault' = step
    /\ fp' = IF step \in WithBody THEN WithExit(fp) ELSE fp

\* line 13: with Image.open(input_path) as img
Open ==
    /\ pc = "open"
    /\ trace' = Append(trace, "open")
    /\ \E env_ok \in BOOLEAN :
          IF Identifies(fs[input_path]) /\ env_ok
          THEN /\ img' = Decode(fs[input_path])
               /\ fp' = "open"
               /\ pc' = After("open")
               /\ UNCHANGED fault
          ELSE /\ Raise("open")
               /\ UNCHANGED img
    /\ UNCHANGED <<fs, run, img_resized, stdout, saves, fsAtStart, history>>

\* line 14: img = img.convert("RGB"); the pixel data is read here, and the
\* library may close the file once it has read it
Convert ==
    /\ pc = "convert"
    /\ trace' = Append(trace, "convert")
    /\ \E ok \in BOOLEAN, closes \in BOOLEAN :
          IF ok
          THEN /\ img' = convert(img, RGB)
               /\ fp' = IF closes THEN "closed" ELSE fp
               /\ pc' = After("convert")
               /\ UNCHANGED fault
          ELSE /\ Raise("convert")
               /\ UNCHANGED img
    /\ UNCHANGED <<fs, run, img_resized, stdout, saves, fsAtStart, history>>

\* line 15: img_resized = img.resize((kdp_width, kdp_height), Image.LANCZOS)
Resize ==
    /\ pc = "resize"
    /\ trace' = Append(trace, "resize")
    /\ \E ok \in BOOLEAN :
          IF ok
          THEN /\ img_resized' = resize(img, <<kdp_width, kdp_height>>, LANCZOS)
               /\ pc' = After("resize")
               /\ UNCHANGED <<fault, fp>>
          ELSE /\ Raise("resize")
               /\ UNCHANGED img_resized
    /\ UNCHANGED <<fs, run, img, stdout, saves, fsAtStart, history>>

\* line 16: img_resized.save(output_path, "JPEG", quality=95), then the exit
\* of the with-block.  A save that fails leaves the old file or a truncated one.
Save ==
    /\ pc = "save"
    /\ trace' = Append(trace, "save")
    /\ saves' = Append(saves, [path |-> output_path, format |-> JPEG,
                               quality |-> quality])
    /\ \E env_ok \in BOOLEAN, truncated \in BOOLEAN :
          IF img_resized.mode \in JpegModes /\ env_ok
          THEN /\ fs' = save(fs, img_resized, output_path, JPEG, quality)
               /\ fp' = WithExit(fp)
               /\ pc' = After("save")
               /\ UNCHANGED fault
          ELSE /\ Raise("save")
               /\ fs' = IF truncated
                        THEN [fs EXCEPT ![output_path] = Garbage]
                        ELSE fs
    /\ UNCHANGED <<run, img, img_resized, stdout, fsAtStart, history>>

\* line 18: print(f"[Success] Cover resized for KDP: {output_path}")
PrintSuccess ==
    /\ pc = "print"
    /\ trace' = Append(trace, "print")
    /\ \E ok \in BOOLEAN :
          IF ok
          THEN /\ stdout' = Append(stdout, SuccessMessage)
               /\ pc' = After("print")
               /\ UNCHANGED <<fault, fp>>
          ELSE /\ Raise("print")
               /\ UNCHANGED stdout
    /\ UNCHANGED <<fs, run, img, img_resized, saves, fsAtStart, history>>

\* the script is run again: a new process, on the files the last one left
StartRun ==
    /\ pc \in Final
    /\ run < MaxRuns
    /\ run' = run + 1
    /\ history' = Append(history, [result |-> pc, out |-> fs[output_path]])
    /\ fsAtStart' = fs
    /\ pc' = "open"
    /\ fp' = "none"
    /\ img' = NoImage
    /\ img_resized' = NoImage
    /\ fault' = "none"
    /\ stdout' = <<>>
    /\ trace' = <<>>
    /\ saves' = <<>>
    /\ UNCHANGED fs

\* the statements of one run
RunStep == Open \/ Convert \/ Resize \/ Save \/ PrintSuccess

Next == Open \/ Convert \/ Resize \/ Save \/ PrintSuccess \/ StartRun

Spec == Init /\ [][Next]_vars

\* the script is synchronous and single-threaded: a statement that can run, runs
FairSpec == Spec /\ WF_vars(RunStep)

(***************************************************************************)
(* Vocabulary of the properties.                                           *)
(***************************************************************************)
Range(q) == {q[i] : i \in DOMAIN q}

IsPrefix(p, q) ==
    /\ Len(p) <= Len(q)
    /\ \A i \in 1 .. Len(p) : p[i] = q[i]

\* how many times the run has executed statement s
Times(s) == Cardinality({i \in DOMAIN trace : trace[i] = s})

\* statement s was executed by the run and did not raise
Completed(s) == s \in Range(trace) /\ fault # s

\* the input the run found is a valid JPEG file
ValidJpegInput ==
    /\ fsAtStart[input_path].kind = "image"
    /\ fsAtStart[input_path].format = "JPEG"

(***************************************************************************)
(* C1: for every valid JPEG input, of any width, height and aspect ratio,  *)
(* a run that completes leaves an output file that exists, decodes as an   *)
(* image and is exactly 1600 pixels wide and 2560 pixels high.             *)
(***************************************************************************)
C1_OutputIs1600x2560 ==
    (ValidJpegInput /\ pc = "done") =>
        /\ fs[output_path].kind = "image"
        /\ fs[output_path].width = 1600
        /\ fs[output_path].height = 2560

\* a completed run on a JPEG narrower and taller than the target
C1_Witness ==
    /\ ValidJpegInput
    /\ pc = "done"
    /\ fsAtStart[input_path].width < 1600
    /\ fsAtStart[input_path].height > 2560
    /\ fs[output_path].width = 1600
    /\ fs[output_path].height = 2560

(***************************************************************************)
(* C2: whatever the colour mode of the input, the image is converted to    *)
(* RGB before the resize and before the save, nothing afterwards changes   *)
(* the mode, and the file a successful save writes has mode RGB (so no     *)
(* alpha channel).                                                         *)
(***************************************************************************)
C2_SavedImageIsRGB ==
    /\ pc \in {"resize", "save"} => img.mode = "RGB"
    /\ pc = "save" => img_resized.mode = "RGB"
    /\ Completed("save") => /\ fs[output_path].kind = "image"
                            /\ fs[output_path].mode = "RGB"

\* a CMYK input whose output was written
C2_Witness ==
    /\ fsAtStart[input_path].kind = "image"
    /\ fsAtStart[input_path].mode = "CMYK"
    /\ Completed("save")
    /\ fs[output_path].mode = "RGB"

(***************************************************************************)
(* C3: when the input path is missing or does not decode as an image, the  *)
(* run faults in the open step; and in every run whose open step failed    *)
(* the output file is as the run found it (neither created nor modified),  *)
(* no save was issued and nothing was printed.                             *)
(***************************************************************************)
C3_OpenFailureWritesNothing ==
    /\ (fsAtStart[input_path].kind # "image" /\ trace # <<>>) => fault = "open"
    /\ fault = "open" =>
          /\ pc = "faulted"
          /\ trace = <<"open">>
          /\ fs[output_path] = fsAtStart[output_path]
          /\ saves = <<>>
          /\ stdout = <<>>

\* an input that exists and does not decode, an older output file in place
C3_Witness ==
    /\ fsAtStart[input_path].kind = "garbage"
    /\ fsAtStart[output_path].kind = "image"
    /\ pc = "faulted"
    /\ fault = "open"
    /\ fs[output_path] = fsAtStart[output_path]

(***************************************************************************)
(* C4: when the script has completed on an input and is run again and      *)
(* completes again, the output file after the later run is equal to the    *)
(* output file after the earlier one: same dimensions, same mode, same     *)
(* format and same content, whatever lay at the output path before.        *)
(***************************************************************************)
C4_Idempotent ==
    (run > 1 /\ pc = "done" /\ history[run - 1].result = "done") =>
        fs[output_path] = history[run - 1].out

\* two completed runs, the first of which found an older output file
C4_Witness ==
    /\ run = 2
    /\ pc = "done"
    /\ history[1].result = "done"
    /\ fs[output_path] = history[1].out
    /\ fs[output_path].kind = "image"
    /\ fs[output_path] # StaleOutput

(***************************************************************************)
(* C5: a fault at a statement ends the run at that statement: the faulted  *)
(* statement is the last one executed, no statement is executed twice, and *)
(* the success message is on the output only when open, convert, resize    *)
(* and save all completed and nothing faulted.                             *)
(***************************************************************************)
C5_FaultEndsRun ==
    /\ fault # "none" =>
          /\ pc = "faulted"
          /\ trace # <<>>
          /\ trace[Len(trace)] = fault
    /\ pc = "faulted" => fault # "none"
    /\ \A s \in Range(Order) : Times(s) <= 1
    /\ stdout # <<>> =>
          /\ stdout = <<SuccessMessage>>
          /\ fault = "none"
          /\ \A s \in {"open", "convert", "resize", "save"} : Completed(s)

\* a run that faulted in the resize step
C5_Witness ==
    /\ fault = "resize"
    /\ pc = "faulted"
    /\ trace = <<"open", "convert", "resize">>
    /\ stdout = <<>>

(***************************************************************************)
(* C6 as claimed: in no state during or after the resize step or the save  *)
(* step is the input file handle open.                                     *)
(***************************************************************************)
C6_HandleClosedAfterDecode ==
    (pc \in {"resize", "save", "print", "done"} \/ "resize" \in Range(trace))
        => fp # "open"

(***************************************************************************)
(* C6 as amended: the input file handle is open only inside the with-block *)
(* (at convert, resize or save, in a run that has not faulted); it is      *)
(* closed in every state after the block has been left.                    *)
(***************************************************************************)
C6_HandleScopedToWithBlock ==
    fp = "open" => /\ pc \in {"convert", "resize", "save"}
                   /\ fault = "none"

\* the handle still open when the save is about to run
C6_Witness ==
    /\ pc = "save"
    /\ fp = "open"
    /\ img_resized # NoImage

(***************************************************************************)
(* C7: the statements run in the order open, convert, resize, save, print, *)
(* each at most once; the statement a run is at is the one after the last  *)
(* it executed; a save is issued, and the output file differs from what    *)
(* the run found, only after open, convert and resize completed, and       *)
(* something is printed only after the save completed.                     *)
(***************************************************************************)
C7_FixedOrder ==
    /\ IsPrefix(trace, Order)
    /\ pc \notin Final => pc = Order[Len(trace) + 1]
    /\ (saves # <<>> \/ fs[output_path] # fsAtStart[output_path]) =>
          \A s \in {"open", "convert", "resize"} : Completed(s)
    /\ stdout # <<>> => Completed("save")

\* a run that went through all five statements
C7_Witness ==
    /\ trace = <<"open", "convert", "resize", "save", "print">>
    /\ pc = "done"
    /\ fs[output_path] # fsAtStart[output_path]

(***************************************************************************)
(* C8: the output path is not the input path; in every state of every run  *)
(* the input file is as the run found it, and nothing but the output path  *)
(* was written; a run issues at most one save, to the output path, with    *)
(* format JPEG and quality 95, and the file a successful save leaves is a  *)
(* JPEG of quality 95.                                                     *)
(***************************************************************************)
C8_OnlyOutputWritten ==
    /\ input_path # output_path
    /\ fs[input_path] = fsAtStart[input_path]
    /\ \A p \in DOMAIN fs : p # output_path => fs[p] = fsAtStart[p]
    /\ Len(saves) <= 1
    /\ \A i \in DOMAIN saves :
          /\ saves[i].path = output_path
          /\ saves[i].format = "JPEG"
          /\ saves[i].quality = 95
    /\ Completed("save") => /\ fs[output_path].format = "JPEG"
                            /\ fs[output_path].quality = 95

\* a PNG input, an output written, the input untouched
C8_Witness ==
    /\ fsAtStart[input_path].kind = "image"
    /\ fsAtStart[input_path].format = "PNG"
    /\ Len(saves) = 1
    /\ Completed("save")
    /\ fs[output_path] # fsAtStart[output_path]
    /\ fs[input_path] = fsAtStart[input_path]

(***************************************************************************)
(* C9: every run that starts ends, and it ends in exactly one of two ways: *)
(* with the success message printed and no fault, or with a fault and      *)
(* nothing printed.                                                        *)
(***************************************************************************)
C9_EveryRunTerminates ==
    /\ \A r \in 1 .. MaxRuns :
          (run = r /\ pc \notin Final) ~> (run = r /\ pc \in Final)
    /\ [](pc \in Final =>
            \/ pc = "done" /\ stdout = <<SuccessMessage>> /\ fault = "none"
            \/ pc = "faulted" /\ stdout = <<>> /\ fault # "none")
    /\ [](Len(trace) <= Len(Order))

\* a completed run that follows a faulted one
C9_Witness ==
    /\ run = 2
    /\ history[1].result = "faulted"
    /\ pc = "done"
    /\ stdout = <<SuccessMessage>>

(***************************************************************************)
(* C10: the handle the open step took is closed on every way out of the    *)
(* with-block: after a save that succeeded and after a fault in convert,   *)
(* resize or save, although img names the converted image by then; no      *)
(* final state has the handle open.                                        *)
(***************************************************************************)
C10_HandleReleasedOnEveryExit ==
    /\ pc \in Final => fp # "open"
    /\ fault \in {"convert", "resize", "save"} => fp = "closed"
    /\ Completed("save") => fp = "closed"

\* a fault in the save step, img rebound to the converted image
C10_Witness ==
    /\ fault = "save"
    /\ pc = "faulted"
    /\ fp = "closed"
    /\ img # Decode(fsAtStart[input_path])

=============================================================================
